---- MODULE Spec2Model ----
(***************************************************************************)
(* Model of handpix's ActionQueue (src/handpix.py): the pending queue, the *)
(* skipped / deleted stacks, the per-destination selection stacks, the     *)
(* linked undo/redo history and the deferred filesystem apply pass.        *)
(*                                                                         *)
(* A Collection (ImageSet) is identified by a number c; its path is        *)
(* Src(c).  The disk is a map from paths to what is stored there.          *)
(***************************************************************************)
EXTENDS Integers, Sequences, FiniteSets, TLC

\* ------------------------------------------------------------------------
\* Bounds and the universe of collections and paths
\* ------------------------------------------------------------------------

NumColls == 2

Colls == 1..NumColls

\* ImageSet.path of collection c
Src(c) == <<"src", c>>

\* a destination that is not the path of any collection
Dst1 == <<"dst", 1>>

\* the destinations select is called with: a fresh path, and the path of
\* collection 1 (target = destination / center / name can name any path)
Dests == {Dst1, Src(1)}

Paths == {Src(c) : c \in Colls} \cup Dests

NoPath == <<"none", 0>>

\* ImageSet.is_collection: odd collections are directories, even ones files
is_collection(c) == c % 2 = 1

\* metadata captured by load_from, used as sort keys
name(c)  == c
size(c)  == c \div 2
atime(c) == (2 * c) % 3
mtime(c) == NumColls - c

Criteria == {"atime", "mtime", "name", "size", "random"}

\* ActionQueue.SORT_DISPATCH for the deterministic criteria
SORT_DISPATCH(criterion, c) ==
    CASE criterion = "atime" -> atime(c)
      [] criterion = "mtime" -> mtime(c)
      [] criterion = "name"  -> name(c)
      [] criterion = "size"  -> size(c)

\* ------------------------------------------------------------------------
\* Sequence helpers
\* ------------------------------------------------------------------------

Last(s)  == s[Len(s)]
Front(s) == SubSeq(s, 1, Len(s) - 1)
Range(s) == {s[i] : i \in 1..Len(s)}

\* list.sort(key=..., reverse=rev): stable, equal keys keep their order
RECURSIVE InsertSorted(_, _, _, _)
InsertSorted(t, x, criterion, rev) ==
    IF t = <<>> THEN <<x>>
    ELSE LET kx == SORT_DISPATCH(criterion, x)
             kl == SORT_DISPATCH(criterion, Last(t))
             stays == IF rev THEN kl >= kx ELSE kl <= kx
         IN  IF stays THEN Append(t, x)
             ELSE Append(InsertSorted(Front(t), x, criterion, rev), Last(t))

RECURSIVE ListSort(_, _, _)
ListSort(s, criterion, rev) ==
    IF s = <<>> THEN <<>>
    ELSE InsertSorted(ListSort(Front(s), criterion, rev), Last(s), criterion, rev)

Perms(s) ==
    {t \in [1..Len(s) -> Range(s)] : \A x \in Range(s) : \E i \in 1..Len(s) : t[i] = x}

\* ------------------------------------------------------------------------
\* State
\* ------------------------------------------------------------------------

VARIABLES
    queue,      \* ActionQueue.queue: pending collections, tail = front
    skipped,    \* ActionQueue.skipped
    deleted,    \* ActionQueue.deleted
    selected,   \* ActionQueue.selected: insertion-ordered dict, as a
                \* sequence of [dest, stack]
    chain,      \* the History nodes reachable from history_start by .next
    history,    \* position of the cursor ActionQueue.history in chain
                \* (0 = history_start, the START sentinel)
    disk,       \* the filesystem: Paths -> [kind, data]
    added,      \* whether add has walked the source root
    call,       \* the name of the last operation called
    ret,        \* what that call returned or raised
    snaps,      \* container snapshots taken before each action of the
                \* current run of successful skip/delete/select calls
    expect,     \* the snapshot the last undo of such a run must restore
    post,       \* the state right after the last action, kept over one undo
    committed,  \* collections deleted or selected at a successful apply
    options,    \* the sort criterion and order the Handpix window was
                \* constructed with
    empty,      \* the queued ImageSets c with len(c.files) = 0
    image_set   \* one ImageSet object on its own: files, selected, ...

vars == <<queue, skipped, deleted, selected, chain, history, disk, added,
          call, ret, snaps, expect, post, committed, options, empty,
          image_set>>

Absent == [kind |-> "absent", data |-> 0]

\* ------------------------------------------------------------------------
\* The selected dictionary
\* ------------------------------------------------------------------------

Keys(sel) == {sel[i].dest : i \in 1..Len(sel)}

IndexOf(sel, d) == CHOOSE i \in 1..Len(sel) : sel[i].dest = d

StackOf(sel, d) == sel[IndexOf(sel, d)].stack

\* del dict[key]: the remaining keys keep their order
RemoveKey(sel, d) ==
    LET i == IndexOf(sel, d)
    IN  SubSeq(sel, 1, i - 1) \o SubSeq(sel, i + 1, Len(sel))

\* the dictionary as a mapping (dict equality ignores insertion order)
AsDict(sel) == {<<sel[i].dest, sel[i].stack>> : i \in 1..Len(sel)}

RECURSIVE Flatten(_)
Flatten(sel) ==
    IF sel = <<>> THEN <<>> ELSE Flatten(Front(sel)) \o Last(sel).stack

\* ActionQueue.is_collision
is_collision(d) == d \in Keys(selected) \/ disk[d].kind # "absent"

\* ActionQueue.peek (0 stands for None)
peek == IF Len(queue) # 0 THEN Last(queue) ELSE 0

\* a progress value: the exception raised, or the fraction num / den
Progress(e, n, d) == [err |-> e, num |-> n, den |-> d]

\* get_progress returning the pending share instead of the processed one
get_progress_pending_share ==
    LET processed == Len(skipped) + Len(deleted) + Len(Flatten(selected))
        pending   == Len(queue)
        total     == pending + processed
    IN  IF total = 0 THEN Progress("ZeroDivisionError", 0, 0)
        ELSE Progress("None", pending, total)

\* ActionQueue.get_progress: 1.0 - (pending / total), as the exact fraction
\* (total - pending) / total; dividing by a total of 0 raises
get_progress ==
    LET processed == Len(skipped) + Len(deleted) + Len(Flatten(selected))
        pending   == Len(queue)
        total     == pending + processed
    IN  IF total = 0 THEN Progress("ZeroDivisionError", 0, 0)
        ELSE Progress("None", total - pending, total)

\* a <= b for two progress fractions
ProgressLeq(a, b) == a.num * b.den <= b.num * a.den

\* ------------------------------------------------------------------------
\* The private queue moves.  Each yields the containers after the call and
\* res: "True" / "False" as returned, or the name of the exception raised.
\* ------------------------------------------------------------------------

Core(q, sk, de, se, r) ==
    [queue |-> q, skipped |-> sk, deleted |-> de, selected |-> se, res |-> r]

Same(r) == Core(queue, skipped, deleted, selected, r)

\* ActionQueue.__skip
do_skip ==
    IF Len(queue) # 0
    THEN Core(Front(queue), Append(skipped, Last(queue)), deleted, selected, "True")
    ELSE Same("False")

\* __back that pushes onto the queue without popping skipped
do_back_keeps_skipped ==
    IF Len(skipped) # 0
    THEN Core(Append(queue, Last(skipped)), skipped, deleted, selected, "True")
    ELSE Same("False")

\* ActionQueue.__back
do_back ==
    IF Len(skipped) # 0
    THEN Core(Append(queue, Last(skipped)), Front(skipped), deleted, selected, "True")
    ELSE Same("False")

\* ActionQueue.__delete
do_delete ==
    IF Len(queue) # 0
    THEN Core(Front(queue), skipped, Append(deleted, Last(queue)), selected, "True")
    ELSE Same("False")

\* ActionQueue.__undelete
do_undelete ==
    IF Len(deleted) # 0
    THEN Core(Append(queue, Last(deleted)), skipped, Front(deleted), selected, "True")
    ELSE Same("False")

\* __select without its collision check
do_select_unchecked(destination, overwrite) ==
    IF Len(queue) # 0
    THEN LET sel1 == IF destination \notin Keys(selected)
                     THEN Append(selected, [dest |-> destination, stack |-> <<>>])
                     ELSE selected
             i    == IndexOf(sel1, destination)
         IN  Core(Front(queue), skipped, deleted,
                  [sel1 EXCEPT ![i].stack = Append(@, Last(queue))], "True")
    ELSE Same("False")

\* __select that checks for a collision before it looks at the queue
do_select_collision_first(destination, overwrite) ==
    IF ~overwrite /\ is_collision(destination)
    THEN Same("PathCollision")
    ELSE do_select_unchecked(destination, overwrite)

\* ActionQueue.__select
do_select(destination, overwrite) ==
    IF Len(queue) # 0
    THEN IF ~overwrite /\ is_collision(destination)
         THEN Same("PathCollision")
         ELSE LET sel1 == IF destination \notin Keys(selected)
                          THEN Append(selected, [dest |-> destination, stack |-> <<>>])
                          ELSE selected
                  i    == IndexOf(sel1, destination)
              IN  Core(Front(queue), skipped, deleted,
                       [sel1 EXCEPT ![i].stack = Append(@, Last(queue))], "True")
    ELSE Same("False")

\* __unselect that leaves the key of an emptied stack in the dictionary
do_unselect_keeps_key(destination) ==
    IF destination \in Keys(selected)
    THEN LET i     == IndexOf(selected, destination)
             stack == selected[i].stack
         IN  IF stack = <<>>
             THEN Same("IndexError")
             ELSE Core(Append(queue, Last(stack)), skipped, deleted,
                       [selected EXCEPT ![i].stack = Front(stack)], "True")
    ELSE Same("False")

\* ActionQueue.__unselect; list.pop() on an empty stack raises IndexError
do_unselect(destination) ==
    IF destination \in Keys(selected)
    THEN LET i     == IndexOf(selected, destination)
             stack == selected[i].stack
         IN  IF stack = <<>>
             THEN Same("IndexError")
             ELSE Core(Append(queue, Last(stack)), skipped, deleted,
                       IF Len(stack) = 1
                       THEN RemoveKey(selected, destination)
                       ELSE [selected EXCEPT ![i].stack = Front(stack)],
                       "True")
    ELSE Same("False")

\* ------------------------------------------------------------------------
\* History
\* ------------------------------------------------------------------------

Node(kind, target) == [kind |-> kind, target |-> target]

\* ActionQueue.add_history: overwrite the node after the cursor if there is
\* one (its own successors stay linked), else link a new node
add_history(kind, target) ==
    IF history < Len(chain)
    THEN [chain   |-> [chain EXCEPT ![history + 1] = Node(kind, target)],
          history |-> history + 1]
    ELSE [chain   |-> Append(chain, Node(kind, target)),
          history |-> history + 1]

\* ActionQueue.UNDO_DISPATCH applied to the cursor node
UNDO_DISPATCH ==
    LET node == chain[history]
    IN  CASE node.kind = "SKIP"   -> do_back
          [] node.kind = "DELETE" -> do_undelete
          [] node.kind = "SELECT" -> do_unselect(node.target)

\* REDO_DISPATCH re-selecting without forcing the overwrite
REDO_DISPATCH_unforced ==
    LET node == chain[history + 1]
    IN  CASE node.kind = "SKIP"   -> do_skip
          [] node.kind = "DELETE" -> do_delete
          [] node.kind = "SELECT" -> do_select(node.target, FALSE)

\* ActionQueue.REDO_DISPATCH applied to the node after the cursor
REDO_DISPATCH ==
    LET node == chain[history + 1]
    IN  CASE node.kind = "SKIP"   -> do_skip
          [] node.kind = "DELETE" -> do_delete
          [] node.kind = "SELECT" -> do_select(node.target, TRUE)

\* what undo() / redo() would return in the current state
undo_result ==
    IF history = 0 THEN "False"
    ELSE IF UNDO_DISPATCH.res \in {"True", "False"} THEN "True"
    ELSE UNDO_DISPATCH.res

\* redo() without its early return: True whenever nothing was raised
redo_result_unguarded ==
    IF history < Len(chain) /\ REDO_DISPATCH.res \notin {"True", "False"}
    THEN REDO_DISPATCH.res
    ELSE "True"

redo_result ==
    IF history = Len(chain) THEN "False"
    ELSE IF REDO_DISPATCH.res \in {"True", "False"} THEN "True"
    ELSE REDO_DISPATCH.res

\* ------------------------------------------------------------------------
\* Paths as pathlib sees them, and the item status
\* ------------------------------------------------------------------------

\* Path.parts: the fresh destination is destination / center / name, with a
\* folder that happens to be called "unsorted"; collection c lies directly
\* under the source root
parts(p) ==
    IF p[1] = "dst"
    THEN <<"destination", "unsorted", ToString(p[2])>>
    ELSE <<"source", ToString(p[2])>>

\* PurePath.name of a path given by its parts; "" for the empty path
path_name(pp) == IF pp = <<>> THEN "" ELSE Last(pp)

\* PurePath.parents of a path given by its parts: the parent first, then
\* its parent, down to the empty path
parents(pp) == [i \in 1..Len(pp) |-> SubSeq(pp, 1, Len(pp) - i)]

\* get_item_status naming the target itself instead of its parent
get_item_status_target_name ==
    IF history < Len(chain)
    THEN LET status == chain[history + 1]
         IN  CASE status.kind = "SKIP"   -> "skipped"
               [] status.kind = "DELETE" -> "deleted"
               [] status.kind = "SELECT" -> path_name(parts(status.target))
    ELSE "unsorted"

\* ActionQueue.get_item_status: status.target.parents[0].name for a SELECT
get_item_status ==
    IF history < Len(chain)
    THEN LET status == chain[history + 1]
         IN  CASE status.kind = "SKIP"   -> "skipped"
               [] status.kind = "DELETE" -> "deleted"
               [] status.kind = "SELECT" -> path_name(parents(parts(status.target))[1])
    ELSE "unsorted"

\* ------------------------------------------------------------------------
\* Bookkeeping of the last call, for stating the properties
\* ------------------------------------------------------------------------

\* val: what the call returned or raised; ok: whether it took effect;
\* for apply, at / source: the destination being committed and the
\* collection popped for it when it raised, load: the collections that were
\* deleted or selected when it was called (for requeue: those that were
\* skipped), stale: those of them that were overwritten selections
Ret(val, ok, at, source, load, stale) ==
    [val |-> val, ok |-> ok, at |-> at, source |-> source,
     load |-> load, stale |-> stale]

Actions == {"skip", "delete", "select"}

Snap(q, sk, de, se) == <<q, sk, de, AsDict(se)>>

FullSnap(q, sk, de, se, ch, h) == <<q, sk, de, AsDict(se), ch, h>>

LastWasAction == call \in Actions /\ ret.ok

LastWasUndo == call = "undo" /\ ret.val = "True"

SetCore(r) ==
    /\ queue'    = r.queue
    /\ skipped'  = r.skipped
    /\ deleted'  = r.deleted
    /\ selected' = r.selected

\* the common tail of skip / delete / select: r is the private move's
\* outcome, and a history node is recorded iff it returned True
Act(op, dest, r, kind) ==
    LET h == IF r.res = "True" THEN add_history(kind, dest)
             ELSE [chain |-> chain, history |-> history]
    IN  /\ SetCore(r)
        /\ chain'   = h.chain
        /\ history' = h.history
        /\ call'    = op
        /\ ret'     = Ret(IF r.res \in {"True", "False"} THEN "None" ELSE r.res,
                          r.res = "True", NoPath, 0, {}, {})
        /\ snaps'   = IF r.res # "True" THEN <<>>
                      ELSE IF LastWasAction
                           THEN Append(snaps, Snap(queue, skipped, deleted, selected))
                           ELSE <<Snap(queue, skipped, deleted, selected)>>
        /\ expect'  = <<>>
        /\ post'    = IF r.res = "True"
                      THEN <<FullSnap(r.queue, r.skipped, r.deleted, r.selected,
                                      h.chain, h.history)>>
                      ELSE <<>>
        /\ UNCHANGED <<empty, image_set, disk, added, options, committed>>

\* ActionQueue.skip
skip == Act("skip", NoPath, do_skip, "SKIP")

\* ActionQueue.delete
delete == Act("delete", NoPath, do_delete, "DELETE")

\* ActionQueue.select
select(destination, overwrite) ==
    Act("select", destination, do_select(destination, overwrite), "SELECT")

\* ActionQueue.undo
undo ==
    LET r    == IF history = 0 THEN Same("False") ELSE UNDO_DISPATCH
        done == undo_result = "True"
    IN  /\ SetCore(r)
        /\ history' = IF done THEN history - 1 ELSE history
        /\ call'    = "undo"
        /\ ret'     = Ret(undo_result, done, NoPath, 0, {}, {})
        /\ snaps'   = IF done /\ snaps # <<>> THEN Front(snaps) ELSE <<>>
        /\ expect'  = IF done /\ snaps # <<>> THEN <<Last(snaps)>> ELSE <<>>
        /\ post'    = IF done /\ LastWasAction THEN post ELSE <<>>
        /\ UNCHANGED <<empty, image_set, chain, disk, added, options, committed>>

\* ActionQueue.redo
redo ==
    LET done == redo_result = "True"
        r    == IF history < Len(chain) THEN REDO_DISPATCH ELSE Same("False")
    IN  /\ SetCore(r)
        /\ history' = IF history < Len(chain) THEN history + 1 ELSE history
        /\ call'    = "redo"
        /\ ret'     = Ret(redo_result, done, NoPath, 0, {}, {})
        /\ snaps'   = <<>>
        /\ expect'  = <<>>
        /\ post'    = IF history < Len(chain) /\ LastWasUndo THEN post ELSE <<>>
        /\ UNCHANGED <<empty, image_set, chain, disk, added, options, committed>>

\* ------------------------------------------------------------------------
\* sort, requeue, add
\* ------------------------------------------------------------------------

Reset ==
    /\ snaps'  = <<>>
    /\ expect' = <<>>
    /\ post'   = <<>>

\* sorting the list in the direction the user names, without the inversion
SortedQueues_uninverted(q, criterion, reverse) ==
    IF criterion = "random" THEN Perms(q)
    ELSE {ListSort(q, criterion, reverse)}

\* the orders queue.sort(key=SORT_DISPATCH[criterion], reverse=not reverse)
\* can leave q in; "random" draws a fresh key per element
SortedQueues(q, criterion, reverse) ==
    IF criterion = "random" THEN Perms(q)
    ELSE {ListSort(q, criterion, ~reverse)}

\* q is in the order the user asked for: taking collections from the tail,
\* the keys never decrease (never increase when reverse)
InKeyOrder(q, criterion, reverse) ==
    \A i \in 1..(Len(q) - 1) :
        IF reverse
        THEN SORT_DISPATCH(criterion, q[i + 1]) >= SORT_DISPATCH(criterion, q[i])
        ELSE SORT_DISPATCH(criterion, q[i + 1]) <= SORT_DISPATCH(criterion, q[i])

\* ActionQueue.sort
sort(criterion, reverse) ==
    /\ queue' \in SortedQueues(queue, criterion, reverse)
    /\ call'  = "sort"
    /\ ret'   = Ret("None", TRUE, NoPath, 0, {}, {})
    /\ Reset
    /\ UNCHANGED <<empty, image_set, skipped, deleted, selected, chain, history, disk, added, options,
                   committed>>

\* clear_history that moves the cursor but leaves history_start.next linked
clear_history_keeps_next == [chain |-> chain, history |-> 0]

\* ActionQueue.clear_history: cursor back on history_start, its next unlinked
clear_history == [chain |-> <<>>, history |-> 0]

\* requeue that drops what was skipped instead of moving it back
requeue_drops_skipped(criterion, reverse) ==
    /\ queue' \in IF criterion = "" THEN {queue}
                  ELSE SortedQueues(queue, criterion, reverse)
    /\ skipped' = <<>>
    /\ chain'   = clear_history.chain
    /\ history' = clear_history.history
    /\ call'    = "requeue"
    /\ ret'     = Ret("None", TRUE, NoPath, 0, Range(skipped), {})
    /\ Reset
    /\ UNCHANGED <<empty, image_set, deleted, selected, disk, added, options, committed>>

\* requeue without clear_history
requeue_keeps_history(criterion, reverse) ==
    LET merged == skipped \o queue
    IN  /\ queue' \in IF criterion = "" THEN {merged}
                      ELSE SortedQueues(merged, criterion, reverse)
        /\ skipped' = <<>>
        /\ call'    = "requeue"
        /\ ret'     = Ret("None", TRUE, NoPath, 0, Range(skipped), {})
        /\ Reset
        /\ UNCHANGED <<empty, image_set, deleted, selected, disk, added, options,
                       committed, chain, history>>

\* ActionQueue.requeue; criterion "" stands for None
requeue(criterion, reverse) ==
    LET merged == skipped \o queue
    IN  /\ queue' \in IF criterion = "" THEN {merged}
                      ELSE SortedQueues(merged, criterion, reverse)
        /\ skipped' = <<>>
        /\ chain'   = clear_history.chain
        /\ history' = clear_history.history
        /\ call'    = "requeue"
        /\ ret'     = Ret("None", TRUE, NoPath, 0, Range(skipped), {})
        /\ Reset
        /\ UNCHANGED <<empty, image_set, deleted, selected, disk, added, options, committed>>

\* the entries os.walk yields for the source root: its files first, then
\* its directories (each matching a collection pattern)
WalkOrder ==
    LET all == [c \in Colls |-> c]
        IsFile(c) == ~is_collection(c)
    IN  SelectSeq(all, IsFile) \o SelectSeq(all, is_collection)

\* ActionQueue.add over the source root, called once
add ==
    /\ ~added
    /\ added' = TRUE
    /\ queue' = queue \o WalkOrder
    /\ call'  = "add"
    /\ ret'   = Ret("None", TRUE, NoPath, 0, {}, {})
    /\ Reset
    /\ UNCHANGED <<empty, image_set, skipped, deleted, selected, chain, history, disk,
                   committed, options>>

\* ------------------------------------------------------------------------
\* The filesystem calls apply makes.  Each yields the disk after the call
\* and err: "None", or the exception raised (the disk is then as before).
\* ------------------------------------------------------------------------

Fs(d, e) == [disk |-> d, err |-> e]

\* shutil.rmtree(path): only a directory can be removed
rmtree(d, path) ==
    CASE d[path].kind = "dir"    -> Fs([d EXCEPT ![path] = Absent], "None")
      [] d[path].kind = "file"   -> Fs(d, "NotADirectoryError")
      [] d[path].kind = "absent" -> Fs(d, "FileNotFoundError")

\* shutil.move(src, dst), dst not existing
move(d, src, dst) ==
    IF d[src].kind = "absent" THEN Fs(d, "FileNotFoundError")
    ELSE Fs([p \in Paths |-> IF p = dst THEN d[src]
                             ELSE IF p = src THEN Absent ELSE d[p]], "None")

\* shutil.copytree(src, dst), dst not existing
copytree(d, src, dst) ==
    CASE d[src].kind = "dir"    -> Fs([d EXCEPT ![dst] = d[src]], "None")
      [] d[src].kind = "file"   -> Fs(d, "NotADirectoryError")
      [] d[src].kind = "absent" -> Fs(d, "FileNotFoundError")

\* shutil.copy2(src, dst), dst not existing
copy2(d, src, dst) ==
    CASE d[src].kind = "file"   -> Fs([d EXCEPT ![dst] = d[src]], "None")
      [] d[src].kind = "dir"    -> Fs(d, "IsADirectoryError")
      [] d[src].kind = "absent" -> Fs(d, "FileNotFoundError")

\* apply's first loop: for item in self.deleted: shutil.rmtree(item.path)
RECURSIVE DeletedLoop(_, _, _)
DeletedLoop(d, de, i) ==
    IF i > Len(de) THEN Fs(d, "None")
    ELSE LET r == rmtree(d, Src(de[i]))
         IN  IF r.err # "None" THEN r ELSE DeletedLoop(r.disk, de, i + 1)

\* a transfer that moves the source whatever delete_original says
commit_always_moves(d, source, destination, delete_original) ==
    move(d, Src(source), destination)

\* the transfer of source to destination: a move when delete_original,
\* else copytree for a directory collection and copy2 for a single file
commit(d, source, destination, delete_original) ==
    IF delete_original
    THEN move(d, Src(source), destination)
    ELSE IF is_collection(source)
         THEN copytree(d, Src(source), destination)
         ELSE copy2(d, Src(source), destination)

Out(d, sel, e, at, source) ==
    [disk |-> d, selected |-> sel, err |-> e, at |-> at, source |-> source]

\* shutil.rmtree(overwrite) is handed the ImageSet itself, not a path:
\* os.lstat raises TypeError
rmtree_imageset(d, c) == Fs(d, "TypeError")

\* apply's second loop, from the i-th item of self.selected.items() on
RECURSIVE SelectedLoop(_, _, _, _)
SelectedLoop(d, sel, i, delete_original) ==
    IF i > Len(sel) THEN Out(d, sel, "None", NoPath, 0)
    ELSE
      LET destination == sel[i].dest
          stack       == sel[i].stack
      IN  IF stack = <<>>
          THEN Out(d, sel, "IndexError", destination, 0)
          ELSE
            LET source == Last(stack)
                rest   == Front(stack)
                sel1   == [sel EXCEPT ![i].stack = rest]
                sel2   == [sel EXCEPT ![i].stack = <<>>]
                r1     == IF d[destination].kind # "absent"
                          THEN rmtree(d, destination) ELSE Fs(d, "None")
                r2     == commit(r1.disk, source, destination, delete_original)
                r3     == IF delete_original /\ rest # <<>>
                          THEN rmtree_imageset(r2.disk, rest[1])
                          ELSE Fs(r2.disk, "None")
            IN  IF r1.err # "None"
                THEN Out(r1.disk, sel1, r1.err, destination, source)
                ELSE IF r2.err # "None"
                THEN Out(r2.disk, sel1, r2.err, destination, source)
                ELSE IF r3.err # "None"
                THEN Out(r3.disk, sel1, r3.err, destination, source)
                ELSE SelectedLoop(r3.disk, sel2, i + 1, delete_original)

\* apply that, when it completes, forgets to clear deleted and the history
apply_result_keeps_deleted(delete_original) ==
    LET r1 == DeletedLoop(disk, deleted, 1)
        r2 == SelectedLoop(r1.disk, selected, 1, delete_original)
    IN  IF r1.err # "None"
        THEN [disk |-> r1.disk, deleted |-> deleted, selected |-> selected,
              chain |-> chain, history |-> history,
              err |-> r1.err, at |-> NoPath, source |-> 0]
        ELSE IF r2.err # "None"
        THEN [disk |-> r2.disk, deleted |-> <<>>, selected |-> r2.selected,
              chain |-> chain, history |-> history,
              err |-> r2.err, at |-> r2.at, source |-> r2.source]
        ELSE [disk |-> r2.disk, deleted |-> deleted, selected |-> <<>>,
              chain |-> chain, history |-> history,
              err |-> "None", at |-> NoPath, source |-> 0]

\* apply without its self.selected.clear(): the emptied stacks keep their keys
ApplyOn_keeps_keys(d, de, sel, ch, h, delete_original) ==
    LET r1 == DeletedLoop(d, de, 1)
        r2 == SelectedLoop(r1.disk, sel, 1, delete_original)
    IN  IF r1.err # "None"
        THEN [disk |-> r1.disk, deleted |-> de, selected |-> sel,
              chain |-> ch, history |-> h,
              err |-> r1.err, at |-> NoPath, source |-> 0]
        ELSE [disk |-> r2.disk, deleted |-> <<>>, selected |-> r2.selected,
              chain |-> IF r2.err # "None" THEN ch ELSE clear_history.chain,
              history |-> IF r2.err # "None" THEN h ELSE clear_history.history,
              err |-> r2.err, at |-> r2.at, source |-> r2.source]

\* ActionQueue.apply(delete_original) run on disk d with the containers de
\* and sel and the history ch, h
ApplyOn(d, de, sel, ch, h, delete_original) ==
    LET r1 == DeletedLoop(d, de, 1)
        r2 == SelectedLoop(r1.disk, sel, 1, delete_original)
    IN  IF r1.err # "None"
        THEN [disk |-> r1.disk, deleted |-> de, selected |-> sel,
              chain |-> ch, history |-> h,
              err |-> r1.err, at |-> NoPath, source |-> 0]
        ELSE IF r2.err # "None"
        THEN [disk |-> r2.disk, deleted |-> <<>>, selected |-> r2.selected,
              chain |-> ch, history |-> h,
              err |-> r2.err, at |-> r2.at, source |-> r2.source]
        ELSE [disk |-> r2.disk, deleted |-> <<>>, selected |-> <<>>,
              chain |-> clear_history.chain, history |-> clear_history.history,
              err |-> "None", at |-> NoPath, source |-> 0]

\* the outcome of ActionQueue.apply(delete_original) in the current state
apply_result(delete_original) ==
    ApplyOn(disk, deleted, selected, chain, history, delete_original)

\* the selections that are not the most recent one for their destination
Stale(sel) == UNION {Range(Front(sel[i].stack)) : i \in {j \in 1..Len(sel) : sel[j].stack # <<>>}}

Held == Range(skipped) \cup Range(deleted) \cup Range(Flatten(selected))

\* ActionQueue.apply
apply(delete_original) ==
    LET r == apply_result(delete_original)
    IN  /\ disk'      = r.disk
        /\ deleted'   = r.deleted
        /\ selected'  = r.selected
        /\ chain'     = r.chain
        /\ history'   = r.history
        /\ call'      = "apply"
        /\ ret'       = Ret(r.err, r.err = "None", r.at, r.source,
                             Range(deleted) \cup Range(Flatten(selected)), Stale(selected))
        /\ committed' = IF r.err = "None"
                        THEN committed \cup Range(deleted) \cup Range(Flatten(selected))
                        ELSE committed
        /\ Reset
        /\ UNCHANGED <<empty, image_set, queue, skipped, added, options>>

\* ------------------------------------------------------------------------
\* The Handpix window.  A handler calls the queue and then refresh; refresh
\* on a drained queue requeues, or prompts for and runs apply.  The user's
\* answers to the prompts and the two checkboxes are inputs of each handler.
\* ------------------------------------------------------------------------

MaxRetries == 1

St(q, sk, de, se, ch, h, d) ==
    [queue |-> q, skipped |-> sk, deleted |-> de, selected |-> se,
     chain |-> ch, history |-> h, disk |-> d]

Now == St(queue, skipped, deleted, selected, chain, history, disk)

\* recycle_queue, delete_original: the checkboxes; apply_changes, continue:
\* the answers to "Apply changes?" and to the prompt that follows it
Inputs ==
    [recycle_queue : BOOLEAN, delete_original : BOOLEAN,
     apply_changes : BOOLEAN, continue : BOOLEAN]

\* how a handler ends: the state it leaves, what the window then shows
\* (val), how often items.apply raised, how many of those errors were put
\* to the user in a prompt, whether an exception left the handler, and the
\* collections a completed apply committed; requeued: whether refresh took
\* its recycle branch
Ending(st, val, errors, prompts, escaped, done) ==
    [st |-> st, val |-> val, errors |-> errors, prompts |-> prompts,
     escaped |-> escaped, done |-> done, requeued |-> FALSE]

\* the requeue of st without clear_history
RequeuedStates_keeps_history(st) ==
    {[st EXCEPT !.queue = q, !.skipped = <<>>] :
        q \in SortedQueues(st.skipped \o st.queue, options.sort, options.reverse)}

\* self.items.requeue(criterion=self.sort, reverse=self.reverse) on st
RequeuedStates(st) ==
    {[st EXCEPT !.queue = q, !.skipped = <<>>,
                !.chain = clear_history.chain, !.history = clear_history.history] :
        q \in SortedQueues(st.skipped \o st.queue, options.sort, options.reverse)}

\* st after self.items.apply(delete_original) gave r
Applied(st, r) ==
    [st EXCEPT !.disk = r.disk, !.deleted = r.deleted, !.selected = r.selected,
               !.chain = r.chain, !.history = r.history]

\* refresh on a queue that is not empty: the front item is shown, unless
\* `if not item: return` leaves before any widget is touched
shown(q) == IF Last(q) \in empty THEN "not updated" ELSE "item"

\* Handpix.refresh(exit_on_empty) called in state st
refresh(st, exit_on_empty, in) ==
    IF Len(st.queue) # 0
    THEN {Ending(st, shown(st.queue), 0, 0, FALSE, {})}
    ELSE IF in.recycle_queue /\ Len(st.skipped) # 0
    THEN {[Ending(s, shown(s.queue), 0, 0, FALSE, {}) EXCEPT !.requeued = TRUE] :
             s \in RequeuedStates(st)}
    ELSE IF ~exit_on_empty \/ ~in.apply_changes
    THEN {Ending(st, "end of queue", 0, 0, FALSE, {})}
    ELSE
      LET r    == ApplyOn(st.disk, st.deleted, st.selected, st.chain, st.history,
                          in.delete_original)
          st1  == Applied(st, r)
          done == Range(st.deleted) \cup Range(Flatten(st.selected))
      IN  IF r.err # "None"
          \* the call is in no try block: the exception leaves refresh
          THEN {Ending(st1, "end of queue", 1, 0, TRUE, {})}
          ELSE IF ~in.continue
          THEN {Ending(st1, "exit", 0, 0, FALSE, done)}
          ELSE IF Len(st1.skipped) # 0
          THEN {Ending(s, shown(s.queue), 0, 0, FALSE, done) :
                   s \in RequeuedStates(st1)}
          \* nothing to requeue: refresh prompts again with nothing left to
          \* apply, until the user declines the one prompt or the other
          ELSE {Ending(st1, "end of queue", 0, 0, FALSE, done),
                Ending(st1, "exit", 0, 0, FALSE, done)}

\* what a handler leaves in ret
GuiRet(val, errors, prompts, escaped, recycle, requeued) ==
    [val |-> val, ok |-> ~escaped, at |-> NoPath, source |-> 0, load |-> {},
     stale |-> {}, errors |-> errors, prompts |-> prompts, escaped |-> escaped,
     recycle |-> recycle, requeued |-> requeued]

Handlers ==
    {"Handpix.__init__", "Handpix.skip", "Handpix.delete", "Handpix.select",
     "Handpix.undo", "Handpix.redo", "Handpix.apply"}

\* the window is up and Gtk.main_quit has not been called
Running == added /\ ret.val # "exit"

Finish(handler, e, in) ==
    /\ queue'     = e.st.queue
    /\ skipped'   = e.st.skipped
    /\ deleted'   = e.st.deleted
    /\ selected'  = e.st.selected
    /\ chain'     = e.st.chain
    /\ history'   = e.st.history
    /\ disk'      = e.st.disk
    /\ call'      = handler
    /\ ret'       = GuiRet(e.val, e.errors, e.prompts, e.escaped,
                            in.recycle_queue, e.requeued)
    /\ committed' = committed \cup e.done
    /\ Reset
    /\ UNCHANGED <<empty, image_set, added, options>>

\* a handler that returns, or raises, before it reaches refresh
Unchanged(escaped) == Ending(Now, "unchanged", 0, 0, escaped, {})

\* the state after a private move r made through skip / delete / select
Moved(r, kind, target) ==
    LET h == IF r.res = "True" THEN add_history(kind, target)
             ELSE [chain |-> chain, history |-> history]
    IN  St(r.queue, r.skipped, r.deleted, r.selected, h.chain, h.history, disk)

\* Handpix.__init__: add the sources, sort, refresh(exit_on_empty=False)
Handpix_init(opts) ==
    /\ ~added
    /\ added'   = TRUE
    /\ options' = opts
    /\ queue'   \in SortedQueues(queue \o WalkOrder, opts.sort, opts.reverse)
    /\ empty'   \in SUBSET {c \in Colls : is_collection(c)}
    /\ call'    = "Handpix.__init__"
    /\ ret'     = GuiRet(IF Last(queue') \in empty' THEN "not updated" ELSE "item",
                         0, 0, FALSE, FALSE, FALSE)
    /\ Reset
    /\ UNCHANGED <<image_set, skipped, deleted, selected, chain, history, disk,
                   committed>>

\* Handpix.skip
Handpix_skip(in) ==
    /\ Running
    /\ \E e \in refresh(Moved(do_skip, "SKIP", NoPath), TRUE, in) :
          Finish("Handpix.skip", e, in)

\* `not item` for item = self.items.peek(): None, or an ImageSet whose
\* __len__ is 0
not_item == peek = 0 \/ peek \in empty

\* Handpix.delete without the test of the item
Handpix_delete_unchecked(in, confirmed) ==
    /\ Running
    /\ IF ~confirmed
       THEN Finish("Handpix.delete", Unchanged(FALSE), in)
       ELSE \E e \in refresh(Moved(do_delete, "DELETE", NoPath), TRUE, in) :
               Finish("Handpix.delete", e, in)

\* Handpix.delete; confirmed: the answer to "Delete File?" when it is asked
Handpix_delete(in, confirmed) ==
    /\ Running
    /\ IF not_item \/ ~confirmed
       THEN Finish("Handpix.delete", Unchanged(FALSE), in)
       ELSE \E e \in refresh(Moved(do_delete, "DELETE", NoPath), TRUE, in) :
               Finish("Handpix.delete", e, in)

\* Handpix.select; target: destination / center / name, confirmed: the
\* answer to "Overwrite File?", asked when the target collides
Handpix_select(in, target, confirmed) ==
    /\ Running
    /\ IF not_item
       THEN Finish("Handpix.select", Unchanged(FALSE), in)
       ELSE IF is_collision(target) /\ ~confirmed
       THEN \E e \in refresh(Now, TRUE, in) : Finish("Handpix.select", e, in)
       ELSE LET r == do_select(target, is_collision(target) /\ confirmed)
            IN  \E e \in refresh(Moved(r, "SELECT", target), TRUE, in) :
                   Finish("Handpix.select", e, in)

\* Handpix.undo
Handpix_undo(in) ==
    /\ Running
    /\ IF undo_result \notin {"True", "False"}
       THEN Finish("Handpix.undo", Unchanged(TRUE), in)
       ELSE LET r == IF history = 0 THEN Same("False") ELSE UNDO_DISPATCH
                h == IF history = 0 THEN 0 ELSE history - 1
            IN  \E e \in refresh(St(r.queue, r.skipped, r.deleted, r.selected,
                                     chain, h, disk), TRUE, in) :
                   Finish("Handpix.undo", e, in)

\* Handpix.redo
Handpix_redo(in) ==
    /\ Running
    /\ IF redo_result \notin {"True", "False"}
       THEN Finish("Handpix.redo", Unchanged(TRUE), in)
       ELSE LET r == IF history < Len(chain) THEN REDO_DISPATCH ELSE Same("False")
                h == IF history < Len(chain) THEN history + 1 ELSE history
            IN  \E e \in refresh(St(r.queue, r.skipped, r.deleted, r.selected,
                                     chain, h, disk), TRUE, in) :
                   Finish("Handpix.redo", e, in)

\* the loop of Handpix.apply once "Apply changes?" was confirmed: on an
\* exception the error prompt is shown; the user continues left more times
\* and then gives up
RECURSIVE ApplyLoop(_, _, _, _)
ApplyLoop(st, left, errors, in) ==
    LET r    == ApplyOn(st.disk, st.deleted, st.selected, st.chain, st.history,
                        in.delete_original)
        st1  == Applied(st, r)
        done == Range(st.deleted) \cup Range(Flatten(st.selected))
    IN  IF r.err = "None"
        \* self.refresh() is inside the try: what it raises is caught too
        THEN {[Ending(e.st, e.val, errors + e.errors, errors + e.errors, FALSE,
                      done \cup e.done) EXCEPT !.requeued = e.requeued] :
                 e \in refresh(st1, TRUE, in)}
        ELSE IF left > 0
        THEN ApplyLoop(st1, left - 1, errors + 1, in)
        ELSE {Ending(st1, "unchanged", errors + 1, errors + 1, FALSE, {})}

\* Handpix.apply, from the apply button
Handpix_apply(in, retries) ==
    /\ Running
    /\ IF ~in.apply_changes
       THEN Finish("Handpix.apply", Unchanged(FALSE), in)
       ELSE \E e \in ApplyLoop(Now, retries, 0, in) : Finish("Handpix.apply", e, in)

\* ------------------------------------------------------------------------
\* ImageSet: one collection, its member files and its cursor.  The cache
\* of loaded previews is left out: it does not change what is returned.
\* ------------------------------------------------------------------------

\* the names a directory can hold, in the order files.sort() gives them
Children == <<"a.png", "b.txt", "c.bin", "sub">>

\* child.is_dir()
child_is_dir(child) == child = "sub"

\* child.suffix[1:]
suffix(child) ==
    CASE child = "a.png" -> "png"
      [] child = "b.txt" -> "txt"
      [] child = "c.bin" -> "bin"
      [] OTHER           -> ""

\* the extensions GdkPixbuf reports, png among them
SUPPORTED_IMAGE_FORMATS == {"png", "jpeg", "gif"}

SUPPORTED_TEXT_FORMATS == {"txt", "json", "xml", "html", "md"}

\* ImageSet.Type.from_extension
from_extension(extension) ==
    IF extension \in SUPPORTED_IMAGE_FORMATS THEN "IMAGE"
    ELSE IF extension \in SUPPORTED_TEXT_FORMATS THEN "TEXT"
    ELSE "UNKNOWN"

\* ImageSet.is_supported_format
is_supported_format(extension) ==
    extension \in SUPPORTED_IMAGE_FORMATS \/ extension \in SUPPORTED_TEXT_FORMATS

\* the paths load_from is given: a directory with its entries, a single
\* file, or a path os.stat fails on
LoadPaths ==
    [kind : {"dir"}, name : {"folder"}, entries : SUBSET Range(Children)]
        \cup {[kind |-> "file", name |-> f, entries |-> {f}] :
                  f \in {"a.png", "b.txt", "c.bin"}}
        \cup {[kind |-> "absent", name |-> "missing", entries |-> {}]}

\* the fields ImageSet.__init__ assigns before it calls load_from
ImageSet_fields ==
    [files |-> <<>>, selected |-> 0, is_collection |-> FALSE, name |-> ""]

\* what a call on an ImageSet yields: the object after it, the value
\* returned, and err: "None" or the exception raised
SetRes(s, val, err) == [set |-> s, val |-> val, err |-> err]

\* ImageSet.__len__
len(s) == Len(s.files)

\* ImageSet.load_from: files is cleared first, then the path is read;
\* selected is not assigned
load_from(s, filepath, inclusive) ==
    LET eligible(child) ==
            /\ child \in filepath.entries
            /\ ~child_is_dir(child)
            /\ inclusive \/ is_supported_format(suffix(child))
    IN  CASE filepath.kind = "absent" ->
                SetRes([s EXCEPT !.files = <<>>, !.name = filepath.name],
                       "None", "FileNotFoundError")
          [] filepath.kind = "dir" ->
                SetRes([s EXCEPT !.files = SelectSeq(Children, eligible),
                                 !.name = filepath.name,
                                 !.is_collection = TRUE], "None", "None")
          [] filepath.kind = "file" ->
                SetRes([s EXCEPT !.files = SelectSeq(Children,
                                               LAMBDA c : c \in filepath.entries),
                                 !.name = filepath.name,
                                 !.is_collection = FALSE], "None", "None")

\* ImageSet.next
ImageSet_next(s) ==
    IF len(s) = 0 THEN SetRes(s, "None", "ZeroDivisionError")
    ELSE SetRes([s EXCEPT !.selected = (s.selected + 1) % len(s)], "None", "None")

\* ImageSet.prev
ImageSet_prev(s) ==
    LET length == len(s)
    IN  IF length = 0 THEN SetRes(s, "None", "ZeroDivisionError")
        ELSE SetRes([s EXCEPT !.selected = (s.selected + (length - 1)) % length],
                    "None", "None")

\* ImageSet.get_progress_text
get_progress_text(s) ==
    IF ~s.is_collection THEN SetRes(s, "single file", "None")
    ELSE SetRes(s, "file " \o ToString(s.selected + 1) \o " of " \o ToString(len(s)),
                "None")

\* self.files[self.selected]: the member under the cursor, or IndexError
item_at(s) ==
    IF s.selected + 1 \in 1..len(s)
    THEN SetRes(s, s.files[s.selected + 1], "None")
    ELSE SetRes(s, "None", "IndexError")

\* ImageSet.get_item_type
get_item_type(s) ==
    IF item_at(s).err # "None" THEN item_at(s)
    ELSE SetRes(s, from_extension(suffix(item_at(s).val)), "None")

\* ImageSet.get_image; loads: whether GdkPixbuf can read the file
get_image(s, loads) ==
    IF len(s) = 0 THEN SetRes(s, "DEFAULT_IMAGE", "None")
    ELSE IF get_item_type(s).err # "None" THEN get_item_type(s)
    ELSE IF get_item_type(s).val # "IMAGE" THEN SetRes(s, "DEFAULT_IMAGE", "None")
    ELSE IF loads THEN SetRes(s, "pixbuf of " \o item_at(s).val, "None")
    ELSE SetRes(s, "DEFAULT_IMAGE", "None")

\* ImageSet.get_text; loads: whether file.read_text() can decode the file
get_text(s, loads) ==
    IF len(s) = 0 THEN SetRes(s, "DEFAULT_TEXT", "None")
    ELSE IF get_item_type(s).err # "None" THEN get_item_type(s)
    ELSE IF get_item_type(s).val # "TEXT" THEN SetRes(s, "DEFAULT_TEXT", "None")
    ELSE IF loads THEN SetRes(s, "text of " \o item_at(s).val, "None")
    ELSE SetRes(s, "None", "UnicodeDecodeError")

\* ImageSet.get_item_name
get_item_name(s) ==
    IF len(s) = 0 THEN SetRes(s, "This set has no files.", "None")
    ELSE item_at(s)

\* a call on the ImageSet object image_set
SetCall(op, r) ==
    /\ image_set' = r.set
    /\ call'      = op
    /\ ret'       = Ret(IF r.err = "None" THEN r.val ELSE r.err, r.err = "None",
                        NoPath, 0, {}, {})
    /\ Reset
    /\ UNCHANGED <<queue, skipped, deleted, selected, chain, history, disk, added,
                   committed, options, empty>>

\* load_from has been called on the object: self.name is the path's name
Constructed == image_set.name # ""

\* ImageSet(path): the object exists only if its load_from returns
ImageSet_init(path) ==
    /\ ~Constructed
    /\ LET r == load_from(ImageSet_fields, path, FALSE)
       IN  SetCall("ImageSet.__init__",
                   IF r.err = "None" THEN r ELSE [r EXCEPT !.set = image_set])

ImageSet_load_from_call(filepath, inclusive) ==
    /\ Constructed
    /\ SetCall("ImageSet.load_from", load_from(image_set, filepath, inclusive))

ImageSet_next_call ==
    /\ Constructed
    /\ SetCall("ImageSet.next", ImageSet_next(image_set))

ImageSet_prev_call ==
    /\ Constructed
    /\ SetCall("ImageSet.prev", ImageSet_prev(image_set))

ImageSet_get_progress_text_call ==
    /\ Constructed
    /\ SetCall("ImageSet.get_progress_text", get_progress_text(image_set))

ImageSet_get_item_type_call ==
    /\ Constructed
    /\ SetCall("ImageSet.get_item_type", get_item_type(image_set))

ImageSet_get_image_call(loads) ==
    /\ Constructed
    /\ SetCall("ImageSet.get_image", get_image(image_set, loads))

ImageSet_get_text_call(loads) ==
    /\ Constructed
    /\ SetCall("ImageSet.get_text", get_text(image_set, loads))

ImageSet_get_item_name_call ==
    /\ Constructed
    /\ SetCall("ImageSet.get_item_name", get_item_name(image_set))

\* ------------------------------------------------------------------------
\* ActionQueue.add over a directory tree.  An entry is the sequence of
\* names from the root to it; a pattern list is the set of names one of its
\* patterns matches in full.
\* ------------------------------------------------------------------------

\* the tree under the root
Entries ==
    {<<"a.png">>, <<"c.bin">>, <<"set">>, <<"set", "a.png">>, <<"sub">>,
     <<"sub", "a.png">>, <<"sub", "set">>, <<"sub", "set", "a.png">>}

Root == <<>>

\* the names in the order a listing gives them
Names == <<"a.png", "c.bin", "set", "sub">>

entry_is_dir(p) == p = Root \/ child_is_dir(Last(p)) \/ Last(p) = "set"

\* what add is called with, and the entries that cannot be read: a broken
\* link, a directory without permission
AddArgs ==
    [recursive : BOOLEAN, inclusive : BOOLEAN,
     collection_patterns : SUBSET {"set", "sub"},
     ignore_patterns : SUBSET Range(Names),
     unreadable : {{}} \cup {{p} : p \in Entries}]

\* filenames and dirnames of one step of os.walk
filenames(dirpath) ==
    SelectSeq(Names, LAMBDA n : dirpath \o <<n>> \in Entries
                                   /\ ~entry_is_dir(dirpath \o <<n>>))

dirnames(dirpath) ==
    SelectSeq(Names, LAMBDA n : dirpath \o <<n>> \in Entries
                                   /\ entry_is_dir(dirpath \o <<n>>))

\* ImageSet(path) raises: os.stat or iterdir fails on the path, or os.stat
\* fails on a child of the directory
ImageSet_raises(p, a) ==
    \/ p \in a.unreadable
    \/ /\ entry_is_dir(p)
       /\ \E i \in 1..Len(filenames(p)) : p \o <<filenames(p)[i]>> \in a.unreadable

\* the loop bodies of add for one directory: the paths it constructs an
\* ImageSet for, in order
constructed(dirpath, a) ==
    LET file_passes(n) ==
            /\ n \notin a.ignore_patterns
            /\ a.inclusive \/ suffix(n) \in SUPPORTED_IMAGE_FORMATS
        dir_passes(n) ==
            /\ n \notin a.ignore_patterns
            /\ n \in a.collection_patterns
        names == SelectSeq(filenames(dirpath), file_passes)
                     \o SelectSeq(dirnames(dirpath), dir_passes)
    IN  [i \in 1..Len(names) |-> dirpath \o <<names[i]>>]

\* the dirnames add leaves for os.walk to descend into
descended(dirpath, a) ==
    LET kept(n) ==
            /\ n \notin a.ignore_patterns
            /\ n \notin a.collection_patterns
            /\ a.recursive
        names == SelectSeq(dirnames(dirpath), kept)
    IN  [i \in 1..Len(names) |-> dirpath \o <<names[i]>>]

WalkRes(q, err) == [queue |-> q, err |-> err]

RECURSIVE walk(_, _), walk_each(_, _, _)

\* os.walk from dirpath with add's loop body: a directory that cannot be
\* listed yields nothing (onerror is None); an exception of ImageSet leaves
\* add at once, with what was appended before it
walk(dirpath, a) ==
    IF dirpath \in a.unreadable THEN WalkRes(<<>>, "None")
    ELSE LET c   == constructed(dirpath, a)
             bad == {i \in 1..Len(c) : ImageSet_raises(c[i], a)}
         IN  IF bad # {}
             THEN LET first == CHOOSE i \in bad : \A j \in bad : i <= j
                  IN  WalkRes(SubSeq(c, 1, first - 1), "OSError")
             ELSE walk_each(descended(dirpath, a), c, a)

walk_each(dirs, acc, a) ==
    IF dirs = <<>> THEN WalkRes(acc, "None")
    ELSE LET r == walk(Head(dirs), a)
         IN  IF r.err # "None" THEN WalkRes(acc \o r.queue, r.err)
             ELSE walk_each(Tail(dirs), acc \o r.queue, a)

\* ActionQueue.add(root, ...) on a new queue; ret keeps the arguments
add_tree(a) ==
    LET r == walk(Root, a)
    IN  /\ ~added
        /\ added' = TRUE
        /\ queue' = queue \o r.queue
        /\ call'  = "ActionQueue.add"
        /\ ret'   = [val |-> r.err, ok |-> r.err = "None", at |-> NoPath,
                     source |-> 0, load |-> {}, stale |-> {}, args |-> a]
        /\ Reset
        /\ UNCHANGED <<skipped, deleted, selected, chain, history, disk,
                       committed, options, empty, image_set>>

\* ------------------------------------------------------------------------
\* Specification
\* ------------------------------------------------------------------------

\* the defaults of --sort-by and --sort-order
DefaultOptions == [sort |-> "name", reverse |-> FALSE]

\* the sort options the window is started with: the command line's
\* defaults, the constructor's defaults, and a random order
SortOptions ==
    {DefaultOptions, [sort |-> "mtime", reverse |-> TRUE],
     [sort |-> "random", reverse |-> FALSE]}

\* the disk before the run: every collection at its path (a directory or a
\* single file, holding its own data), nothing yet at the fresh destination
InitDisk ==
    [p \in Paths |->
        IF \E c \in Colls : p = Src(c)
        THEN LET c == CHOOSE c \in Colls : p = Src(c)
             IN  [kind |-> IF is_collection(c) THEN "dir" ELSE "file", data |-> c]
        ELSE Absent]

\* ActionQueue.__init__, over a disk holding the collections
Init ==
    /\ queue     = <<>>
    /\ skipped   = <<>>
    /\ deleted   = <<>>
    /\ selected  = <<>>
    /\ chain     = <<>>
    /\ history   = 0
    /\ disk      = InitDisk
    /\ added     = FALSE
    /\ call      = "init"
    /\ ret       = Ret("None", TRUE, NoPath, 0, {}, {})
    /\ snaps     = <<>>
    /\ expect    = <<>>
    /\ post      = <<>>
    /\ committed = {}
    /\ options   = DefaultOptions
    /\ empty     = {}
    /\ image_set = ImageSet_fields

Next ==
    \/ add
    \/ \E criterion \in Criteria, reverse \in BOOLEAN : sort(criterion, reverse)
    \/ skip
    \/ delete
    \/ \E destination \in Dests, overwrite \in BOOLEAN : select(destination, overwrite)
    \/ undo
    \/ redo
    \/ \E criterion \in Criteria \cup {""}, reverse \in BOOLEAN : requeue(criterion, reverse)
    \/ \E delete_original \in BOOLEAN : apply(delete_original)

Spec == Init /\ [][Next]_vars

\* the queue operations alone: everything but apply
NextQueue ==
    \/ add
    \/ \E criterion \in Criteria, reverse \in BOOLEAN : sort(criterion, reverse)
    \/ skip
    \/ delete
    \/ \E destination \in Dests, overwrite \in BOOLEAN : select(destination, overwrite)
    \/ undo
    \/ redo
    \/ \E criterion \in Criteria \cup {""}, reverse \in BOOLEAN : requeue(criterion, reverse)

SpecQueue == Init /\ [][NextQueue]_vars

\* the queue operations with apply only where it succeeds
NextOk ==
    \/ add
    \/ \E criterion \in Criteria, reverse \in BOOLEAN : sort(criterion, reverse)
    \/ skip
    \/ delete
    \/ \E destination \in Dests, overwrite \in BOOLEAN : select(destination, overwrite)
    \/ undo
    \/ redo
    \/ \E criterion \in Criteria \cup {""}, reverse \in BOOLEAN : requeue(criterion, reverse)
    \/ \E delete_original \in BOOLEAN :
          apply_result(delete_original).err = "None" /\ apply(delete_original)

SpecOk == Init /\ [][NextOk]_vars

\* the window: the handlers behind its buttons
NextGui ==
    \/ \E opts \in SortOptions : Handpix_init(opts)
    \/ \E in \in Inputs : Handpix_skip(in)
    \/ \E in \in Inputs, confirmed \in BOOLEAN : Handpix_delete(in, confirmed)
    \/ \E in \in Inputs, target \in Dests, confirmed \in BOOLEAN :
          Handpix_select(in, target, confirmed)
    \/ \E in \in Inputs : Handpix_undo(in)
    \/ \E in \in Inputs : Handpix_redo(in)
    \/ \E in \in Inputs, retries \in 0..MaxRetries : Handpix_apply(in, retries)

SpecGui == Init /\ [][NextGui]_vars

\* one ImageSet object and the calls made on it
NextSet ==
    \/ \E path \in LoadPaths : ImageSet_init(path)
    \/ \E filepath \in LoadPaths, inclusive \in BOOLEAN :
          ImageSet_load_from_call(filepath, inclusive)
    \/ ImageSet_next_call
    \/ ImageSet_prev_call
    \/ ImageSet_get_progress_text_call
    \/ ImageSet_get_item_type_call
    \/ \E loads \in BOOLEAN : ImageSet_get_image_call(loads)
    \/ \E loads \in BOOLEAN : ImageSet_get_text_call(loads)
    \/ ImageSet_get_item_name_call

SpecSet == Init /\ [][NextSet]_vars

\* add over a directory tree
NextWalk == \E a \in AddArgs : add_tree(a)

SpecWalk == Init /\ [][NextWalk]_vars

TypeOK ==
    /\ history \in 0..Len(chain)
    /\ Len(queue) <= NumColls

\* ------------------------------------------------------------------------
\* Properties
\* ------------------------------------------------------------------------

Here == Snap(queue, skipped, deleted, selected)

HereFull == FullSnap(queue, skipped, deleted, selected, chain, history)

\* C1: a successful skip / delete / select issued right after one or more
\* successful undo calls leaves the history cursor without a next node, so
\* the next redo() returns False.
C1_RedoBranchDiscarded ==
    [][(LastWasUndo /\ call' \in Actions /\ ret'.ok)
         => (history' = Len(chain') /\ redo_result' = "False")]_vars

\* C2: n successful skip / delete / select calls followed by n undo calls
\* restore queue, skipped, deleted and selected to what they were before the
\* n calls (expect holds that earlier snapshot after each undo of the run).
C2_UndoRoundTrip ==
    expect # <<>> => Here = expect[1]

\* C3: undo immediately followed by redo, right after a successful action,
\* gives back the containers and the history the action had produced, and
\* the redo returns True without raising.
C3_RedoRoundTrip ==
    (call = "redo" /\ post # <<>>) => (ret.val = "True" /\ HereFull = post[1])

\* C3 witness: a SELECT onto a colliding destination was undone and redone
C3_Witness ==
    /\ call = "redo"
    /\ post # <<>>
    /\ history > 0
    /\ chain[history].kind = "SELECT"
    /\ \/ disk[chain[history].target].kind # "absent"
       \/ Len(StackOf(selected, chain[history].target)) >= 2

\* C4: on a non-empty queue with destination d colliding (a key of selected
\* or present on disk), select(d, overwrite=False) raises PathCollision and
\* changes no container and no history; select(d, overwrite=True) pops the
\* queue tail onto the top of selected[d] and records one SELECT node.
C4_SelectCollision ==
    [][\A d \in Dests :
         (Len(queue) # 0 /\ is_collision(d)) =>
            /\ select(d, FALSE) =>
                  /\ ret'.val = "PathCollision"
                  /\ UNCHANGED <<queue, skipped, deleted, selected, chain, history>>
            /\ select(d, TRUE) =>
                  /\ ret'.val = "None"
                  /\ queue' = Front(queue)
                  /\ d \in Keys(selected')
                  /\ StackOf(selected', d) =
                        (IF d \in Keys(selected) THEN StackOf(selected, d) ELSE <<>>)
                           \o <<Last(queue)>>
                  /\ \A e \in Keys(selected) \ {d} :
                        e \in Keys(selected') /\ StackOf(selected', e) = StackOf(selected, e)
                  /\ UNCHANGED <<skipped, deleted>>
                  /\ history' = history + 1
                  /\ chain'[history'] = Node("SELECT", d)
                  /\ Len(chain') = IF history < Len(chain) THEN Len(chain) ELSE Len(chain) + 1
      ]_vars

\* C4 witness: a select on a non-empty queue has just raised PathCollision
C4_Witness ==
    /\ call = "select"
    /\ ret.val = "PathCollision"
    /\ Len(queue) # 0

\* C5: when apply raises while committing destination d, the collection
\* that was the most recent selection for d is still the top of selected[d]
\* (so a retried apply commits it and no pending collection is lost).
C5_ApplyRetryable ==
    (call = "apply" /\ ~ret.ok /\ ret.at # NoPath /\ ret.source # 0) =>
        /\ ret.at \in Keys(selected)
        /\ StackOf(selected, ret.at) # <<>>
        /\ Last(StackOf(selected, ret.at)) = ret.source

\* C6: with selected = {d: [X, Y]}, nothing deleted, d free on disk and both
\* sources on disk, apply(delete_original=True) completes, moves Y to d and
\* removes X from disk without moving it.
C6_StaleRemovedOnMove ==
    [][\A d \in Dests, X \in Colls, Y \in Colls :
         ( /\ selected = <<[dest |-> d, stack |-> <<X, Y>>]>>
           /\ deleted = <<>>
           /\ disk[d].kind = "absent"
           /\ disk[Src(X)].kind # "absent"
           /\ disk[Src(Y)].kind # "absent"
           /\ apply(TRUE) )
         => /\ ret'.val = "None"
            /\ disk'[d] = disk[Src(Y)]
            /\ disk'[Src(Y)] = Absent
            /\ disk'[Src(X)] = Absent
      ]_vars

\* C7: apply, with either delete_original, removes every collection in
\* deleted from disk (single file or directory) and empties deleted.
C7_DeletedRemoved ==
    [][\A delete_original \in BOOLEAN :
         ( /\ Len(deleted) # 0
           /\ \A c \in Range(deleted) : disk[Src(c)].kind # "absent"
           /\ selected = <<>>
           /\ apply(delete_original) )
         => /\ deleted' = <<>>
            /\ \A c \in Range(deleted) : disk'[Src(c)] = Absent
      ]_vars

Selections(sel) == Range(Flatten(sel))

\* C8 as stated: after apply(delete_original=False) has returned, the source
\* path of every selected collection, committed or stale, still exists on
\* disk unchanged.
C8_CopyKeepsEverySource ==
    [][(apply(FALSE) /\ ret'.ok) =>
          \A c \in Selections(selected) :
             disk'[Src(c)] = disk[Src(c)] /\ disk'[Src(c)].kind # "absent"
      ]_vars

\* C8 amended: after apply(delete_original=False) has returned, the source
\* path of every selected collection that is not itself one of the
\* destinations is on disk exactly as before, the committed ones exist, and
\* when no selected source is a destination each destination holds a copy of
\* its most recent selection.
C8_CopyKeepsOtherSources ==
    [][(apply(FALSE) /\ ret'.ok) =>
          /\ \A c \in Selections(selected) :
                Src(c) \notin Keys(selected) => disk'[Src(c)] = disk[Src(c)]
          /\ \A i \in 1..Len(selected) :
                LET top == Last(selected[i].stack)
                IN  Src(top) \notin Keys(selected) => disk'[Src(top)].kind # "absent"
          /\ ({Src(c) : c \in Selections(selected)} \cap Keys(selected) = {}) =>
                \A i \in 1..Len(selected) :
                   disk'[selected[i].dest] = disk[Src(Last(selected[i].stack))]
      ]_vars

\* C8 witness: a copying apply has returned having left a stale selection
\* behind, and every collection it handled is still on disk at its source
C8_Witness ==
    /\ call = "apply"
    /\ ret.ok
    /\ ret.stale # {}
    /\ \A c \in ret.stale : disk[Src(c)].data = c

\* C9: after a successful apply deleted and selected are empty, the cursor is
\* the START sentinel with no next node, undo() and redo() return False, and
\* queue and skipped are as before the apply.
C9_ApplyClears ==
    [][(call' = "apply" /\ ret'.ok) =>
          /\ deleted' = <<>>
          /\ selected' = <<>>
          /\ history' = 0
          /\ chain' = <<>>
          /\ undo_result' = "False"
          /\ redo_result' = "False"
          /\ UNCHANGED <<queue, skipped>>
      ]_vars

\* C9 witness: an apply with something to commit has succeeded while other
\* collections were pending or skipped
C9_Witness ==
    /\ call = "apply"
    /\ ret.ok
    /\ ret.load # {}
    /\ Len(queue) + Len(skipped) # 0

Holdings == queue \o skipped \o deleted \o Flatten(selected)

\* C11: under add, sort, skip, delete, select, undo, redo and requeue no
\* collection is held twice by queue, skipped, deleted and the selected
\* stacks together, and every collection that was added is held by one.
C11_NoAliasing ==
    /\ \A i, j \in 1..Len(Holdings) : i # j => Holdings[i] # Holdings[j]
    /\ Range(Holdings) = IF added THEN Colls ELSE {}

\* C11 witness: a redo has just run with one collection skipped and another
\* selected
C11_Witness ==
    /\ call = "redo"
    /\ ret.val = "True"
    /\ Len(skipped) # 0
    /\ selected # <<>>

\* C12: get_progress() returns 1.0 whenever queue is empty, without raising,
\* also when skipped, deleted and selected are empty too.
C12_ProgressDefined ==
    Len(queue) = 0 => (get_progress.err = "None" /\ get_progress.num = get_progress.den)

\* C13: over a skip / delete / select call on an ActionQueue that holds at
\* least one collection, get_progress() does not decrease, and a call that
\* is a no-op or raises PathCollision leaves it unchanged.
C13_ProgressMonotone ==
    [][(call' \in Actions /\ get_progress.err = "None") =>
          /\ get_progress'.err = "None"
          /\ ProgressLeq(get_progress, get_progress')
          /\ ~ret'.ok => get_progress' = get_progress
      ]_vars

\* C13 witness: a select has just raised the progress to a value strictly
\* between 0 and 1
C13_Witness ==
    /\ call = "select"
    /\ ret.ok
    /\ get_progress.err = "None"
    /\ 0 < get_progress.num
    /\ get_progress.num < get_progress.den

\* the last call was an undo, of a SELECT made in the current run of actions
UndidSelect ==
    /\ LastWasUndo
    /\ expect # <<>>
    /\ chain[history + 1].kind = "SELECT"

\* C14 as stated: is_collision(d) is true right after a successful
\* select(d, overwrite) and false after the undo of that select, whatever
\* overwrite was.
C14_CollisionClearedByUndo ==
    /\ (call = "select" /\ ret.ok) => is_collision(chain[history].target)
    /\ UndidSelect => ~is_collision(chain[history + 1].target)

\* C14 amended: is_collision(d) is true right after a successful
\* select(d, overwrite); after the undo of that select it is false if d was
\* no key of selected and not on disk before the select (always so when
\* overwrite was False), and still true if d is on disk or had an earlier
\* pending selection.
C14_CollisionRestoredByUndo ==
    /\ (call = "select" /\ ret.ok) => is_collision(chain[history].target)
    /\ UndidSelect =>
          LET d          == chain[history + 1].target
              before     == expect[1][4]
              wasKey     == \E e \in before : e[1] = d
              hadPending == \E e \in before : e[1] = d /\ e[2] # <<>>
          IN  /\ (~wasKey /\ disk[d].kind = "absent") => ~is_collision(d)
              /\ (hadPending \/ disk[d].kind # "absent") => is_collision(d)

\* C14 witness: a select onto a free destination was undone and the
\* destination is free again
C14_Witness ==
    /\ UndidSelect
    /\ ~is_collision(chain[history + 1].target)

\* C15: on an empty queue skip(), delete() and select(d, overwrite) raise
\* nothing and change no container and no history node, also for
\* select(d, overwrite=False) with d colliding.
C15_EmptyQueueNoOp ==
    [][Len(queue) = 0 =>
          /\ (skip \/ delete) =>
                /\ ret'.val = "None"
                /\ UNCHANGED <<queue, skipped, deleted, selected, chain, history, disk>>
          /\ \A d \in Dests, overwrite \in BOOLEAN :
                select(d, overwrite) =>
                   /\ ret'.val = "None"
                   /\ UNCHANGED <<queue, skipped, deleted, selected, chain, history, disk>>
      ]_vars

\* C15 witness: a select was called on an empty queue while a destination
\* was colliding and the cursor had a next node
C15_Witness ==
    /\ call = "select"
    /\ ~ret.ok
    /\ Len(queue) = 0
    /\ \E d \in Dests : is_collision(d)
    /\ history < Len(chain)

\* C16: undo() with the cursor on the START sentinel, and redo() with no
\* node after the cursor, return False and leave queue, skipped, deleted,
\* selected and the history as they were.
C16_HistoryEndsNoOp ==
    [][/\ (history = 0 /\ undo) =>
             /\ ret'.val = "False"
             /\ UNCHANGED <<queue, skipped, deleted, selected, chain, history>>
       /\ (history = Len(chain) /\ redo) =>
             /\ ret'.val = "False"
             /\ UNCHANGED <<queue, skipped, deleted, selected, chain, history>>
      ]_vars

\* C16 witness: a redo returned False at the end of a history that holds
\* nodes, with collections pending and processed
C16_Witness ==
    /\ call = "redo"
    /\ ret.val = "False"
    /\ history = Len(chain)
    /\ history > 0
    /\ Len(queue) # 0

\* C17: requeue leaves the cursor on START with no next node (undo() and
\* redo() return False), empties skipped into queue next to everything that
\* was pending, leaves deleted and selected alone, keeps the order
\* skipped + queue when no criterion is given and sorts when one is.
\* (A requeue step with a criterion is one whose queue' is in SortedQueues.)
C17_Requeue ==
    [][call' = "requeue" =>
          /\ history' = 0
          /\ chain' = <<>>
          /\ undo_result' = "False"
          /\ redo_result' = "False"
          /\ skipped' = <<>>
          /\ Len(queue') = Len(skipped) + Len(queue)
          /\ Range(queue') = Range(skipped) \cup Range(queue)
          /\ UNCHANGED <<deleted, selected>>
          /\ \A reverse \in BOOLEAN :
                queue' = skipped \o queue \/ ~requeue("", reverse)
          /\ \A criterion \in Criteria \ {"random"}, reverse \in BOOLEAN :
                \/ InKeyOrder(queue', criterion, reverse)
                \/ queue' \notin SortedQueues(skipped \o queue, criterion, reverse)
      ]_vars

\* C17 witness: a requeue has moved a skipped collection back next to a
\* pending one, out of key order for some criterion
C17_Witness ==
    /\ call = "requeue"
    /\ ret.load # {}
    /\ Range(queue) # ret.load
    /\ ~InKeyOrder(queue, "name", FALSE)

\* how often c occurs in q
Count(q, c) == Cardinality({i \in 1..Len(q) : q[i] = c})

\* q's tail, the collection peek returns, has the smallest key of q (the
\* largest when reverse)
TailIsFirst(q, criterion, reverse) ==
    \A c \in Range(q) :
        IF reverse
        THEN SORT_DISPATCH(criterion, Last(q)) >= SORT_DISPATCH(criterion, c)
        ELSE SORT_DISPATCH(criterion, Last(q)) <= SORT_DISPATCH(criterion, c)

\* C18: after sort(criterion, reverse) with a deterministic criterion the
\* queue, taken from its tail as peek and skip do, is in non-decreasing key
\* order (non-increasing when reverse) and peek() has the smallest (largest)
\* key; sort permutes queue and changes nothing else.
\* (A sort step with a criterion is one whose queue' is in SortedQueues.)
C18_SortOrder ==
    [][call' = "sort" =>
          /\ \A c \in Colls : Count(queue', c) = Count(queue, c)
          /\ UNCHANGED <<skipped, deleted, selected, chain, history, disk>>
          /\ peek' = IF Len(queue) # 0 THEN Last(queue') ELSE 0
          /\ \A criterion \in Criteria \ {"random"}, reverse \in BOOLEAN :
                \/ /\ InKeyOrder(queue', criterion, reverse)
                   /\ TailIsFirst(queue', criterion, reverse)
                \/ queue' \notin SortedQueues(queue, criterion, reverse)
      ]_vars

\* C18 witness: a sort has reordered a queue of several collections while
\* the history held a node
C18_Witness ==
    /\ call = "sort"
    /\ Len(queue) >= 2
    /\ queue # WalkOrder
    /\ chain # <<>>

\* C19: whenever a handler's call of items.apply raises, the error is put to
\* the user in a prompt (retry or abandon): as many prompts as errors, and
\* no exception leaves the handler.
C19_ApplyErrorsPrompted ==
    (call \in Handlers /\ ret.errors > 0) =>
        (ret.prompts = ret.errors /\ ~ret.escaped)

\* C20 as stated: get_item_status() is "unsorted" iff the cursor has no next
\* node, "skipped" for a SKIP node, "deleted" for a DELETE node, and the last
\* segment of the stored destination for a SELECT node.
C20_StatusLastSegment ==
    /\ get_item_status = "unsorted" <=> history = Len(chain)
    /\ history < Len(chain) =>
          LET next == chain[history + 1]
          IN  /\ next.kind = "SKIP"   => get_item_status = "skipped"
              /\ next.kind = "DELETE" => get_item_status = "deleted"
              /\ next.kind = "SELECT" =>
                    get_item_status = parts(next.target)[Len(parts(next.target))]

\* C20 amended: get_item_status() is "unsorted" when the cursor has no next
\* node, "skipped" for a SKIP node, "deleted" for a DELETE node, and for a
\* SELECT node the second to last segment of the stored destination (the
\* name of the folder the destination lies in).
C20_StatusParentFolder ==
    /\ history = Len(chain) => get_item_status = "unsorted"
    /\ history < Len(chain) =>
          LET next == chain[history + 1]
          IN  /\ next.kind = "SKIP"   => get_item_status = "skipped"
              /\ next.kind = "DELETE" => get_item_status = "deleted"
              /\ next.kind = "SELECT" =>
                    get_item_status = parts(next.target)[Len(parts(next.target)) - 1]

\* C20 witness: after an undo the next node is a SELECT whose destination
\* lies in a folder named differently from the destination itself
C20_Witness ==
    /\ call = "undo"
    /\ history < Len(chain)
    /\ chain[history + 1].kind = "SELECT"
    /\ get_item_status # path_name(parts(chain[history + 1].target))

\* the accessors of an ImageSet
Accessors ==
    {"ImageSet.get_item_type", "ImageSet.get_image", "ImageSet.get_text",
     "ImageSet.get_item_name", "ImageSet.get_progress_text"}

\* C21: every accessor called on a collection with zero members returns a
\* value and raises nothing.
C21_EmptyAccessorsDefined ==
    (Constructed /\ len(image_set) = 0 /\ call \in Accessors) => ret.ok

\* C25: in a collection with at least one member the cursor is an index
\* into the members, whatever load_from, next and prev calls were made.
C25_CursorInRange ==
    (Constructed /\ len(image_set) >= 1)
        => image_set.selected \in 0..(len(image_set) - 1)

\* the directories add is to visit: the root, and below a visited
\* directory every directory that matches neither an ignore nor a
\* collection pattern, if recursive is set
RECURSIVE Visited(_, _)
Visited(p, a) ==
    \/ p = Root
    \/ /\ entry_is_dir(p)
       /\ Visited(Front(p), a)
       /\ Last(p) \notin a.ignore_patterns
       /\ Last(p) \notin a.collection_patterns
       /\ a.recursive

\* the entries add is to queue
Eligible(p, a) ==
    /\ Visited(Front(p), a)
    /\ Last(p) \notin a.ignore_patterns
    /\ IF entry_is_dir(p) THEN Last(p) \in a.collection_patterns
       ELSE a.inclusive \/ suffix(Last(p)) \in SUPPORTED_IMAGE_FORMATS

\* p is an unreadable entry, lies in one, or is a directory holding one
Unreadable(p, a) ==
    \E u \in a.unreadable :
        \/ Len(u) <= Len(p) /\ SubSeq(p, 1, Len(u)) = u
        \/ Len(p) <= Len(u) /\ SubSeq(u, 1, Len(p)) = p

\* C22: after add over a tree the queue holds, once each, exactly the
\* directories that match a collection pattern and the files that pass the
\* format filter, among the entries that match no ignore pattern and lie
\* in a visited directory; a directory is visited iff it is the root or a
\* recursive add reached it through directories matching no pattern.  (An
\* eligible entry that cannot be read may be queued or not.)
C22_AddFollowsPatterns ==
    call = "ActionQueue.add"
        => \A p \in Entries :
              /\ Count(queue, p) <= 1
              /\ Count(queue, p) = 1 => Eligible(p, ret.args)
              /\ (Eligible(p, ret.args) /\ ~Unreadable(p, ret.args))
                    => Count(queue, p) = 1

\* C23: an entry that cannot be read does not end add: add returns, and
\* every entry the patterns make eligible, other than the unreadable one
\* and what lies in or holds it, is queued.
C23_UnreadableSkipped ==
    call = "ActionQueue.add"
        => /\ ret.ok
           /\ \A p \in Entries :
                 (Eligible(p, ret.args) /\ ~Unreadable(p, ret.args))
                    => p \in Range(queue)

\* the collection at the front of the queue has no members
EmptyAtFront == peek # 0 /\ peek \in empty

C24_RecycleRequeues ==
    [][(call' \in Handlers /\ ret'.recycle /\ ret'.val # "unchanged")
          => /\ ~(Len(queue') = 0 /\ Len(skipped') # 0)
             /\ ret'.val \in {"end of queue", "exit"} => skipped' = <<>>
             /\ ret'.requeued
                   => /\ skipped' = <<>>
                      /\ Len(queue') # 0
                      /\ ret'.val \in {"item", "not updated"}
                      /\ options.sort # "random"
                            => InKeyOrder(queue', options.sort, options.reverse)
                      /\ history' = 0
                      /\ chain' = <<>>
                      /\ undo_result' = "False"
      ]_vars

\* C24 witness: the last pending collection was skipped with the box
\* checked, and refresh requeued it together with another skipped one
C24_Witness ==
    /\ call = "Handpix.skip"
    /\ ret.recycle
    /\ ret.requeued
    /\ Len(queue) > 1
    /\ undo_result = "False"

\* the container the node under the cursor names
NamedContainer ==
    LET node == chain[history]
    IN  CASE node.kind = "SKIP"   -> skipped
          [] node.kind = "DELETE" -> deleted
          [] node.kind = "SELECT" -> StackOf(selected, node.target)

\* where collection c is: a container, or the destination it is selected for
Loc(c) ==
    IF c \in Range(queue) THEN "queue"
    ELSE IF c \in Range(skipped) THEN "skipped"
    ELSE IF c \in Range(deleted) THEN "deleted"
    ELSE IF \E d \in Keys(selected) : c \in Range(StackOf(selected, d))
    THEN ToString(CHOOSE d \in Keys(selected) : c \in Range(StackOf(selected, d)))
    ELSE "nowhere"

\* when the cursor is not on START the container its node names is not
\* empty, and when the cursor has a next node the queue is not empty
Consistent ==
    /\ history # 0 => NamedContainer # <<>>
    /\ history < Len(chain) => Len(queue) # 0

\* C26: every step leaves history and containers consistent, and an undo()
\* or redo() that returns True moves exactly one collection from one
\* container to another.
C26_HistoryConsistent ==
    [][/\ Consistent'
       /\ (call' \in {"undo", "redo"} /\ ret'.val = "True")
             => Cardinality({c \in Colls : Loc(c) # Loc(c)'}) = 1]_vars

\* C26 witness: a redo has moved a collection and the cursor, now on a
\* node, still has a next node
C26_Witness ==
    /\ call = "redo"
    /\ ret.val = "True"
    /\ history # 0
    /\ history < Len(chain)
    /\ NamedContainer # <<>>

\* C27: every destination that is a key of selected has a stack that is
\* not empty: a destination is a key iff a collection is pending for it.
C27_NoEmptyStack ==
    \A i \in 1..Len(selected) : selected[i].stack # <<>>

\* C27 witness: undoing the only selection for a destination has removed
\* its key, while another destination keeps a pending collection
C27_Witness ==
    /\ call = "undo"
    /\ ret.val = "True"
    /\ history < Len(chain)
    /\ chain[history + 1].kind = "SELECT"
    /\ chain[history + 1].target \notin Keys(selected)
    /\ Len(selected) > 0

====
